---- MODULE Spec2Model ----
(***************************************************************************)
(* The `icons build` command of svg-icons-cli (src/index.js).              *)
(*                                                                         *)
(* Text is a sequence of tokens: a token is one character of an icon name  *)
(* ("a", "b"), one punctuation character ("=", the double quote, " ",      *)
(* newline) or one fixed piece of markup that no search ever splits        *)
(* ("<defs>", "<path/>", ".svg").  String.prototype.includes is the       *)
(* search for a contiguous run of tokens.                                  *)
(*                                                                         *)
(* The file system is the input directory (path -> parsed content), the    *)
(* set of directories that exist, and the output files (path -> content).  *)
(***************************************************************************)
EXTENDS Integers, Sequences, FiniteSets, TLC

\* ------------------------------------------------------------------ bounds

\* Invocations of `icons build` in one behaviour.
MaxBuilds == 2
\* Changes made to the input directory between invocations.
MaxEdits == 1
\* The same two bounds for the runs that start without output files.
MaxBuildsAgree == 3
MaxEditsAgree == 2
\* Directories between the working directory and the root, at most.
MaxDepth == 2
\* readFile calls of one package.json lookup the model follows.
MaxReads == 5

\* -------------------------------------------------------------------- text

QUOTE == "\""
NL == "\n"
SP == " "

RECURSIVE Join(_, _)
\* Array.prototype.join over lines that are token sequences.
Join(lines, sep) ==
    IF lines = <<>> THEN <<>>
    ELSE IF Len(lines) = 1 THEN lines[1]
    ELSE lines[1] \o sep \o Join(Tail(lines), sep)

\* String.prototype.includes.
Includes(hay, needle) ==
    \E i \in 0..(Len(hay) - Len(needle)) :
        SubSeq(hay, i + 1, i + Len(needle)) = needle

IsSpace(t) == t \in {SP, NL, "\t"}

RECURSIVE Trim(_)
\* String.prototype.trim.
Trim(s) ==
    IF s = <<>> THEN s
    ELSE IF IsSpace(Head(s)) THEN Trim(Tail(s))
    ELSE IF IsSpace(s[Len(s)]) THEN Trim(SubSeq(s, 1, Len(s) - 1))
    ELSE s

Range(s) == {s[i] : i \in 1..Len(s)}

\* ------------------------------------------------------------- input files

\* Paths relative to the input directory, as glob returns them.
PA == <<"a", ".svg">>
PAB == <<"a", "b", ".svg">>
PNotes == <<"a", ".txt">>
SvgPaths == {PA, PAB}
AllPaths == SvgPaths \cup {PNotes}

\* Collation rank of a token: punctuation sorts before letters.
CharRank(t) ==
    CASE t = ".svg" -> 0
      [] t = ".txt" -> 0
      [] t = "a" -> 1
      [] t = "b" -> 2
      [] OTHER -> 3

RECURSIVE localeCompare(_, _)
\* a.localeCompare(b): negative, zero or positive.
localeCompare(a, b) ==
    IF a = <<>> /\ b = <<>> THEN 0
    ELSE IF a = <<>> THEN -1
    ELSE IF b = <<>> THEN 1
    ELSE IF CharRank(Head(a)) < CharRank(Head(b)) THEN -1
    ELSE IF CharRank(Head(a)) > CharRank(Head(b)) THEN 1
    ELSE localeCompare(Tail(a), Tail(b))

RECURSIVE SortPaths(_)
\* .sort((a, b) => a.localeCompare(b)) of the paths glob found.
SortPaths(S) ==
    IF S = {} THEN <<>>
    ELSE LET m == CHOOSE x \in S : \A y \in S : localeCompare(x, y) <= 0
         IN <<m>> \o SortPaths(S \ {m})

\* The content of an input file as node-html-parser sees it: whether the
\* document has an <svg> element, that element's attributes in order, and
\* its serialized children.
Absent == [present |-> FALSE, svg |-> FALSE, attrs |-> <<>>, body |-> <<>>]
NoSvg == [present |-> TRUE, svg |-> FALSE, attrs |-> <<>>, body |-> <<"<p/>">>]
Attr(k, v) == [k |-> k, v |-> v]
SvgSized ==
    [present |-> TRUE, svg |-> TRUE,
     attrs |-> << Attr("xmlns", <<"http://www.w3.org/2000/svg">>),
                  Attr("width", <<"24">>),
                  Attr("height", <<"24">>),
                  Attr("viewBox", <<"0 0 10 10">>) >>,
     body |-> <<"<path/>">>]
SvgVersioned ==
    [present |-> TRUE, svg |-> TRUE,
     attrs |-> << Attr("id", <<"old">>),
                  Attr("version", <<"1.1">>),
                  Attr("xmlns:xlink", <<"http://www.w3.org/1999/xlink">>),
                  Attr("fill", <<"none">>) >>,
     body |-> <<"<circle/>">>]

\* An icon that styles itself by an attribute selector on its own id:
\* <svg viewBox=...><style>[id=ab]{}</style><circle/></svg>
SvgStyled ==
    [present |-> TRUE, svg |-> TRUE,
     attrs |-> << Attr("viewBox", <<"0 0 10 10">>) >>,
     body |-> <<"<style>", "[", "id", "=", "a", "b", "]", "{}", "</style>", "<circle/>">>]

\* What each file of the model may hold.
Contents(p) ==
    IF p = PAB THEN {Absent, NoSvg, SvgVersioned, SvgStyled}
    ELSE {Absent, NoSvg, SvgSized}

\* glob.sync("**/*.svg", {cwd: inputDir}): the paths present that end in .svg.
Glob(dir) == {p \in DOMAIN dir : dir[p].present /\ p[Len(p)] = ".svg"}

RECURSIVE ReversePaths(_)
ReversePaths(S) ==
    IF S = {} THEN <<>>
    ELSE LET m == CHOOSE x \in S : \A y \in S : localeCompare(x, y) <= 0
         IN ReversePaths(S \ {m}) \o <<m>>

\* The file list without the sort, in an order glob may return.
DiscoverUnsorted(dir) == ReversePaths(Glob(dir))

\* The sorted file list of build.
DiscoverFiles(dir) == SortPaths(Glob(dir))

\* file.replace(/\.svg$/, "")
iconName(file) ==
    IF file # <<>> /\ file[Len(file)] = ".svg"
    THEN SubSeq(file, 1, Len(file) - 1)
    ELSE file

IconNames(files) == [i \in 1..Len(files) |-> iconName(files[i])]

\* -------------------------------------------------------- symbol normalizer

StrippedAttrs == {"xmlns", "xmlns:xlink", "version", "width", "height"}

\* HTMLElement.setAttribute: replaces the value in place or appends.
SetAttribute(attrs, k, v) ==
    IF \E i \in 1..Len(attrs) : attrs[i].k = k
    THEN [i \in 1..Len(attrs) |-> IF attrs[i].k = k THEN Attr(k, v) ELSE attrs[i]]
    ELSE Append(attrs, Attr(k, v))

\* HTMLElement.removeAttribute.
RemoveAttribute(attrs, k) == SelectSeq(attrs, LAMBDA a : a.k # k)

RECURSIVE RawAttrs(_)
\* The attribute text after setAttribute/removeAttribute: name="value" pairs,
\* each preceded by one space; the value is always double-quoted.
RawAttrs(attrs) ==
    IF attrs = <<>> THEN <<>>
    ELSE <<SP, Head(attrs).k, "=", QUOTE>> \o Head(attrs).v \o <<QUOTE>>
         \o RawAttrs(Tail(attrs))

\* HTMLElement.toString of the renamed element.
ElementToString(tag, attrs, body) ==
    <<"<", tag>> \o RawAttrs(attrs) \o <<">">> \o body \o <<"</", tag, ">">>

\* The normalizer with the last removeAttribute forgotten.
SymbolAttrsKeepHeight(file, attrs) ==
    LET a0 == SetAttribute(attrs, "id", iconName(file))
        a1 == RemoveAttribute(a0, "xmlns")
        a2 == RemoveAttribute(a1, "xmlns:xlink")
        a3 == RemoveAttribute(a2, "version")
    IN RemoveAttribute(a3, "width")

\* The attributes of the symbol: id set, the five sizing and namespace
\* attributes removed, in the order of the code.
SymbolAttrs(file, attrs) ==
    LET a0 == SetAttribute(attrs, "id", iconName(file))
        a1 == RemoveAttribute(a0, "xmlns")
        a2 == RemoveAttribute(a1, "xmlns:xlink")
        a3 == RemoveAttribute(a2, "version")
        a4 == RemoveAttribute(a3, "width")
    IN RemoveAttribute(a4, "height")

\* The body of the per-file task once the file is read and has an <svg>.
Normalize(file, content) ==
    Trim(ElementToString("symbol", SymbolAttrs(file, content.attrs), content.body))

\* A check that takes any document that parsed for an <svg>.
HasSvgLoose(content) == content.present

\* root.querySelector("svg") found an element.
HasSvg(content) == content.present /\ content.svg

\* --------------------------------------------------------- sprite assembler

XmlDecl == <<"<?xml?>">>
GeneratedComment == <<"<!--generated-->">>
SvgOpen == <<"<", "svg", SP, "width", "=", QUOTE, "0", QUOTE, SP,
             "height", "=", QUOTE, "0", QUOTE, ">">>

\* The document of generateSvgSprite before the optimizer.
AssembleSprite(symbols) ==
    Join(<<XmlDecl, GeneratedComment, SvgOpen, <<"<defs>">>>>
         \o symbols
         \o << <<"</defs>">>, <<"</", "svg", ">">>, <<>> >>, <<NL>>)

\* ---------------------------------------------------------------- optimizer

\* svgo's optimize(output, config).data.  svgo is not part of the repository:
\* the document it returns depends on the configuration loadConfig() finds.
\* Two configurations stand for it: "minify" drops the comment and the line
\* breaks and keeps every element; "cleanup" is a configuration with
\* cleanupIds and removeUselessDefs, which empties <defs> of the symbols no
\* <use> of the document refers to.
SvgoConfigs == {"minify", "cleanup"}

IndexOf(doc, t) == CHOOSE i \in 1..Len(doc) : doc[i] = t /\ \A j \in 1..(i - 1) : doc[j] # t

Minified(doc) == SelectSeq(doc, LAMBDA t : t # NL /\ t # GeneratedComment[1])

optimize(doc, config) ==
    IF config = "minify" THEN Minified(doc)
    ELSE LET m == Minified(doc)
         IN SubSeq(m, 1, IndexOf(m, "<defs>")) \o SubSeq(m, IndexOf(m, "</defs>"), Len(m))

\* ----------------------------------------------------------------- manifest

\* JSON.stringify of an icon name (the names of the model need no escape).
Stringify(name) == <<QUOTE>> \o name \o <<QUOTE>>

\* A manifest whose join starts one name late.
TypeOutputSkipsFirst(names) ==
    <<"// generated", NL, NL, "export type IconName =", NL, "\t", "|", SP>>
    \o Join([i \in 1..(Len(names) - 1) |-> Stringify(names[i + 1])], <<NL, "\t", "|", SP>>)
    \o <<";", NL>>

\* typeOutputContent of build.
TypeOutputContent(names) ==
    <<"// generated", NL, NL, "export type IconName =", NL, "\t", "|", SP>>
    \o Join([i \in 1..Len(names) |-> Stringify(names[i])], <<NL, "\t", "|", SP>>)
    \o <<";", NL>>

\* The static README text of build.
ReadmeContent == <<"# Icons", NL, NL, "generated by icons build", NL>>

\* ------------------------------------------------------------- file system

Dirs == {"out", "sprites"}
OutputDir == "out"
SpriteName == "sprite.svg"
TypesName == "name.d.ts"
ReadmeName == "README.md"
FileNames == {SpriteName, TypesName, ReadmeName}
Paths == Dirs \X FileNames

NoFile == [exists |-> FALSE, data |-> <<>>]
File(data) == [exists |-> TRUE, data |-> data]

\* fs.readFile(path, "utf8").catch(() => "")
ReadOrEmpty(fsys, path) == IF fsys[path].exists THEN fsys[path].data ELSE <<>>

\* writeIfChanged without the comparison: it writes whatever the file holds.
writeAlways(fsys, dirset, path, newContent, ioFails) ==
    IF path[1] \notin dirset \/ ioFails
    THEN [ret |-> FALSE, threw |-> TRUE, fs |-> fsys]
    ELSE [ret |-> TRUE, threw |-> FALSE,
          fs |-> [fsys EXCEPT ![path] = File(newContent)]]

\* writeIfChanged that takes an existing file for current whatever it holds.
writeIfMissing(fsys, dirset, path, newContent, ioFails) ==
    IF fsys[path].exists
    THEN [ret |-> FALSE, threw |-> FALSE, fs |-> fsys]
    ELSE IF path[1] \notin dirset \/ ioFails
    THEN [ret |-> FALSE, threw |-> TRUE, fs |-> fsys]
    ELSE [ret |-> TRUE, threw |-> FALSE,
          fs |-> [fsys EXCEPT ![path] = File(newContent)]]

\* writeIfChanged(filepath, newContent) on file system fsys where the
\* directories of dirset exist; ioFails: fs.writeFile rejects for a reason
\* of the environment (permissions, a full disk).  ret is the value returned,
\* threw whether the call rejected instead, fs the file system afterwards.
writeIfChanged(fsys, dirset, path, newContent, ioFails) ==
    LET currentContent == ReadOrEmpty(fsys, path)
    IN IF currentContent = newContent
       THEN [ret |-> FALSE, threw |-> FALSE, fs |-> fsys]
       ELSE IF path[1] \notin dirset \/ ioFails
       THEN [ret |-> FALSE, threw |-> TRUE, fs |-> fsys]
       ELSE [ret |-> TRUE, threw |-> FALSE,
             fs |-> [fsys EXCEPT ![path] = File(newContent)]]

\* ------------------------------------------------------ up-to-date check

\* The needle the serializer's output would match: id="name".
SpriteNeedleQuoted(name) == <<"id", "=", QUOTE>> \o name \o <<QUOTE>>

\* `id=${name}`
SpriteNeedle(name) == <<"id", "=">> \o name

\* `"${name}"`
TypesNeedle(name) == <<QUOTE>> \o name \o <<QUOTE>>

spriteUpToDate(names, currentSprite) ==
    \A i \in 1..Len(names) : Includes(currentSprite, SpriteNeedle(names[i]))

typesUpToDate(names, currentTypes) ==
    \A i \in 1..Len(names) : Includes(currentTypes, TypesNeedle(names[i]))

UpToDate(names, currentSprite, currentTypes) ==
    spriteUpToDate(names, currentSprite) /\ typesUpToDate(names, currentTypes)

\* ------------------------------------------------ output files found at start

\* What an earlier run of the build left: the sprite of a build over ab.svg
\* alone, holding SvgStyled, and the manifest of a build over a.svg and ab.svg.
EarlierSprite == AssembleSprite(<<Normalize(PAB, SvgStyled)>>)
EarlierTypes == TypeOutputContent(<< <<"a">>, <<"a", "b">> >>)

EditedReadme == <<"# Icons", NL, NL, "my notes", NL>>

\* -------------------------------------------------------------------- state

VARIABLES
    cfg,        \* the resolved options: spriteDir, optimize, svgo configuration
    inputDir,   \* the input directory: path -> content
    dirs,       \* the directories that exist
    fs,         \* the output files: path -> file
    pc,         \* "idle", "reading" (inside Promise.all), "done", "exit" (non-zero)
    files,      \* the sorted file list of the running or last invocation
    results,    \* the array Promise.all fills: index -> symbol, <<>> while pending
    arrival,    \* the indices of the tasks that completed, in completion order
    outcome,    \* how the last invocation ended
    calls,      \* the writeIfChanged calls of the invocation, in order
    optimized,  \* whether the invocation ran the optimizer
    assembled,  \* the document the invocation assembled (<<>>: none)
    pre,        \* the output files and the input directory when the invocation began
    prev,       \* the same, and the outcome, of the invocation before it
    nBuilds,
    nEdits,
    cwd,         \* process.cwd(): the directory names from the root down
    pkg,         \* what package.json holds in each directory from the root to cwd
    dir,         \* parsePackageJson: dir
    packageJson, \* parsePackageJson: packageJson
    startup,     \* "lookup" (in the while loop), "parsed", "threw", then "dispatched"
    reads,       \* readFile calls of the lookup so far
    framework    \* what detectFramework returned

buildVars == <<cfg, inputDir, dirs, fs, pc, files, results, arrival, outcome, calls,
               optimized, assembled, pre, prev, nBuilds, nEdits>>
startupVars == <<cwd, pkg, dir, packageJson, startup, reads, framework>>
vars == <<buildVars, startupVars>>

\* The README placed beside the sprite instead of beside the manifest.
ReadmeBesideSprite == <<cfg.spriteDir, ReadmeName>>

SpritePath == <<cfg.spriteDir, SpriteName>>
TypesPath == <<OutputDir, TypesName>>
ReadmePath == <<OutputDir, ReadmeName>>

Configs ==
    {[spriteDir |-> d, optimize |-> o, svgo |-> s] :
        d \in Dirs, o \in BOOLEAN, s \in SvgoConfigs}

NoRun == [outcome |-> "none", fs |-> [p \in Paths |-> NoFile],
          input |-> [p \in AllPaths |-> Absent], files |-> <<>>]

\* A directory is its root followed by the names on the way down; the root
\* of a POSIX path is "/", the root of a win32 path is its drive.
Roots == {"/", "C:\\"}
PathOfDepth(root, n) == <<root>> \o [k \in 1..n |-> "d"]
WorkingDirs == {PathOfDepth(r, n) : r \in Roots, n \in 0..MaxDepth}
\* The directories from the root down to d.
Ancestors(d) == {SubSeq(d, 1, n) : n \in 1..Len(d)}

\* What <dir>/package.json is: no readable file, a file of no bytes, text
\* that is not JSON, or JSON text of an object without "dependencies",
\* with next among its dependencies, or with empty dependencies and
\* devDependencies.
PackageKinds == {"missing", "empty", "invalid", "nodeps", "next", "plain"}

\* path.dirname: the parent, and the root for the root.
dirname(d) == IF Len(d) = 1 THEN d ELSE SubSeq(d, 1, Len(d) - 1)

\* `!packageJson`: undefined and the empty string are falsy.
Falsy(v) == v \in {"undefined", "empty"}

\* The build command is reached once the startup has dispatched it: here
\* from the root directory with no package.json, after the one read.
Dispatched ==
    /\ cwd = <<"/">>
    /\ pkg = [d \in Ancestors(<<"/">>) |-> "missing"]
    /\ dir = <<"/">>
    /\ packageJson = "undefined"
    /\ startup = "dispatched"
    /\ reads = 1
    /\ framework = "unknown"

Init ==
    /\ Dispatched
    /\ cfg \in {c \in Configs : ~c.optimize => c.svgo = "minify"}
    /\ inputDir \in {d \in [AllPaths -> {Absent, NoSvg, SvgSized, SvgVersioned, SvgStyled}] :
                        /\ d[PNotes] = NoSvg
                        /\ \A p \in SvgPaths : d[p] \in Contents(p)}
    /\ \E s \in {NoFile, File(EarlierSprite)},
          t \in {NoFile, File(EarlierTypes)},
          r \in {NoFile, File(ReadmeContent), File(EditedReadme)} :
         fs = [p \in Paths |->
                 IF p = <<cfg.spriteDir, SpriteName>> THEN s
                 ELSE IF p = <<OutputDir, TypesName>> THEN t
                 ELSE IF p = <<OutputDir, ReadmeName>> THEN r
                 ELSE NoFile]
    /\ dirs \in {D \in SUBSET Dirs :
                   /\ \A p \in Paths : fs[p].exists => p[1] \in D
                   /\ OutputDir \in D => \E p \in Paths : p[1] = OutputDir /\ fs[p].exists
                   /\ "sprites" \in D => cfg.spriteDir = "sprites"}
    /\ pc = "idle"
    /\ files = <<>>
    /\ results = <<>>
    /\ arrival = <<>>
    /\ outcome = "none"
    /\ calls = <<>>
    /\ optimized = FALSE
    /\ assembled = <<>>
    /\ pre = NoRun
    /\ prev = NoRun
    /\ nBuilds = 0
    /\ nEdits = 0

\* ------------------------------------------------------------------ build

\* An emptiness test that never holds.
NoInputNever(fileList) == Len(fileList) < 0

\* files.length === 0
NoInput(fileList) == Len(fileList) = 0

\* mkdirSync(outputDir, { recursive: true })
MkdirOutput(dirset) == dirset \cup {OutputDir}

\* build, from the file discovery to the up-to-date check (lines 163-192):
\* exit 1 on an empty list, return when up to date, else start one
\* read-and-normalize task per file.
Build(maxBuilds) ==
    /\ pc \in {"idle", "done", "exit"}
    /\ nBuilds < maxBuilds
    /\ nBuilds' = nBuilds + 1
    /\ LET fileList == DiscoverFiles(inputDir)
           names == IconNames(fileList)
           currentSprite == ReadOrEmpty(fs, SpritePath)
           currentTypes == ReadOrEmpty(fs, TypesPath)
       IN /\ files' = fileList
          /\ prev' = [outcome |-> outcome, fs |-> pre.fs, input |-> pre.input,
                      files |-> files]
          /\ pre' = [outcome |-> "running", fs |-> fs, input |-> inputDir,
                     files |-> fileList]
          /\ calls' = <<>>
          /\ arrival' = <<>>
          /\ optimized' = FALSE
          /\ assembled' = <<>>
          /\ results' = [i \in 1..Len(fileList) |-> <<>>]
          /\ IF NoInput(fileList)
             THEN /\ pc' = "exit"
                  /\ outcome' = "noinput"
                  /\ dirs' = dirs
             ELSE /\ dirs' = MkdirOutput(dirs)
                  /\ IF UpToDate(names, currentSprite, currentTypes)
                     THEN pc' = "done" /\ outcome' = "uptodate"
                     ELSE pc' = "reading" /\ outcome' = "running"
    /\ UNCHANGED <<cfg, inputDir, fs, nEdits>>
    /\ UNCHANGED startupVars

\* A gather that pushes each value as it arrives.
PlaceByArrival(res, arrived, i, v) == [res EXCEPT ![Len(arrived) + 1] = v]

\* Where Promise.all puts the value of task i: at index i of its array.
PlaceResult(res, arrived, i, v) == [res EXCEPT ![i] = v]

Pending == {i \in 1..Len(files) : i \notin Range(arrival)}

\* One task of files.map(async ...) completes (lines 547-560): the file has
\* been read and parsed; without an <svg> the task throws, Promise.all
\* rejects, and the rejection ends the process.
ReadTask(i) ==
    /\ pc = "reading"
    /\ i \in Pending
    /\ arrival' = Append(arrival, i)
    /\ IF HasSvg(inputDir[files[i]])
       THEN /\ results' = PlaceResult(results, arrival, i,
                                      Normalize(files[i], inputDir[files[i]]))
            /\ UNCHANGED <<pc, outcome>>
       ELSE /\ pc' = "exit"
            /\ outcome' = "malformed"
            /\ UNCHANGED results
    /\ UNCHANGED <<cfg, inputDir, dirs, fs, files, calls, optimized, assembled,
                   pre, prev, nBuilds, nEdits>>
    /\ UNCHANGED startupVars

Call(path, content, w) == [path |-> path, content |-> content, ret |-> w.ret, threw |-> w.threw]

\* The rest of the invocation once every task has completed (lines 562-578
\* and 200-226): assemble, optimize, then the three writeIfChanged calls in
\* order, the first rejection ending the process.  failAt: the path, if any,
\* whose fs.writeFile the environment fails.
Finish(failAt) ==
    /\ pc = "reading"
    /\ Pending = {}
    /\ LET doc == AssembleSprite(results)
           output == IF cfg.optimize THEN optimize(doc, cfg.svgo) ELSE doc
           w1 == writeIfChanged(fs, dirs, SpritePath, output, failAt = SpritePath)
           c1 == Call(SpritePath, output, w1)
           types == TypeOutputContent(IconNames(files))
           w2 == writeIfChanged(w1.fs, dirs, TypesPath, types, failAt = TypesPath)
           c2 == Call(TypesPath, types, w2)
           w3 == writeIfChanged(w2.fs, dirs, ReadmePath, ReadmeContent, failAt = ReadmePath)
           c3 == Call(ReadmePath, ReadmeContent, w3)
       IN /\ assembled' = doc
          /\ optimized' = cfg.optimize
          /\ IF w1.threw
             THEN /\ fs' = w1.fs /\ calls' = <<c1>>
                  /\ pc' = "exit" /\ outcome' = "writefail"
             ELSE IF w2.threw
             THEN /\ fs' = w2.fs /\ calls' = <<c1, c2>>
                  /\ pc' = "exit" /\ outcome' = "writefail"
             ELSE IF w3.threw
             THEN /\ fs' = w3.fs /\ calls' = <<c1, c2, c3>>
                  /\ pc' = "exit" /\ outcome' = "writefail"
             ELSE /\ fs' = w3.fs /\ calls' = <<c1, c2, c3>>
                  /\ pc' = "done" /\ outcome' = "generated"
    /\ UNCHANGED <<cfg, inputDir, dirs, files, results, arrival, pre, prev,
                   nBuilds, nEdits>>
    /\ UNCHANGED startupVars

\* Between invocations the user adds, removes or replaces one input file.
EditInput(p, c, maxEdits) ==
    /\ pc \in {"idle", "done", "exit"}
    /\ nEdits < maxEdits
    /\ c # inputDir[p]
    /\ inputDir' = [inputDir EXCEPT ![p] = c]
    /\ nEdits' = nEdits + 1
    /\ UNCHANGED <<cfg, dirs, fs, pc, files, results, arrival, outcome, calls,
                   optimized, assembled, pre, prev, nBuilds>>
    /\ UNCHANGED startupVars

FailPoints == {<<"none", "none">>} \cup {<<d, n>> \in Paths : d = OutputDir \/ n = SpriteName}

Next ==
    \/ Build(MaxBuilds)
    \/ \E i \in 1..Len(files) : ReadTask(i)
    \/ \E f \in FailPoints : Finish(f)
    \/ \E p \in SvgPaths : \E c \in Contents(p) : EditInput(p, c, MaxEdits)

Spec == Init /\ [][Next]_vars

\* Builds with the optimizer off that start with no output file and no
\* output directory, over one more invocation and one more change of the
\* input directory.
InitAgree ==
    /\ Dispatched
    /\ cfg \in {c \in Configs : ~c.optimize /\ c.svgo = "minify"}
    /\ inputDir \in {d \in [AllPaths -> {Absent, NoSvg, SvgSized, SvgVersioned, SvgStyled}] :
                        /\ d[PNotes] = NoSvg
                        /\ \A p \in SvgPaths : d[p] \in Contents(p)}
    /\ fs = [p \in Paths |-> NoFile]
    /\ dirs \in {D \in SUBSET Dirs : OutputDir \notin D /\ ("sprites" \in D => cfg.spriteDir = "sprites")}
    /\ pc = "idle"
    /\ files = <<>>
    /\ results = <<>>
    /\ arrival = <<>>
    /\ outcome = "none"
    /\ calls = <<>>
    /\ optimized = FALSE
    /\ assembled = <<>>
    /\ pre = NoRun
    /\ prev = NoRun
    /\ nBuilds = 0
    /\ nEdits = 0

NextAgree ==
    \/ Build(MaxBuildsAgree)
    \/ \E i \in 1..Len(files) : ReadTask(i)
    \/ \E f \in FailPoints : Finish(f)
    \/ \E p \in SvgPaths : \E c \in Contents(p) : EditInput(p, c, MaxEditsAgree)

SpecAgree == InitAgree /\ [][NextAgree]_vars

\* ---------------------------------------------------------------- startup

\* The build has not been dispatched: no invocation, the default options.
NotDispatched ==
    /\ cfg = [spriteDir |-> OutputDir, optimize |-> FALSE, svgo |-> "minify"]
    /\ inputDir = [p \in AllPaths |-> Absent]
    /\ fs = [p \in Paths |-> NoFile]
    /\ dirs = {}
    /\ pc = "idle"
    /\ files = <<>>
    /\ results = <<>>
    /\ arrival = <<>>
    /\ outcome = "none"
    /\ calls = <<>>
    /\ optimized = FALSE
    /\ assembled = <<>>
    /\ pre = NoRun
    /\ prev = NoRun
    /\ nBuilds = 0
    /\ nEdits = 0

\* detectFramework has called parsePackageJson, which is about to test its
\* loop condition for the first time.
InitStartup ==
    /\ NotDispatched
    /\ cwd \in WorkingDirs
    /\ pkg \in [Ancestors(cwd) -> PackageKinds]
    /\ dir = cwd
    /\ packageJson = "undefined"
    /\ startup = "lookup"
    /\ reads = 0
    /\ framework = "undefined"

\* One turn of the loop of parsePackageJson and, when the loop ends with
\* it, the JSON.parse of the return statement.  The model follows MaxReads
\* turns of one lookup.
parsePackageJson ==
    /\ startup = "lookup"
    /\ Falsy(packageJson)
    /\ reads < MaxReads
    /\ reads' = reads + 1
    /\ IF pkg[dir] = "missing"
       THEN /\ packageJson' = packageJson
            /\ IF dir = <<"/">>
               THEN /\ startup' = "threw"
                    /\ dir' = dir
               ELSE /\ startup' = "lookup"
                    /\ dir' = dirname(dir)
       ELSE /\ packageJson' = pkg[dir]
            /\ dir' = dir
            /\ startup' = IF Falsy(pkg[dir]) THEN "lookup"
                          ELSE IF pkg[dir] = "invalid" THEN "threw"
                          ELSE "parsed"
    /\ UNCHANGED <<cwd, pkg, framework>>
    /\ UNCHANGED buildVars

\* detectFramework after parsePackageJson has returned or thrown: a throw
\* is caught, a parsed object without "dependencies" is not.
detectFramework ==
    /\ startup \in {"threw", "parsed"}
    /\ IF startup = "parsed" /\ packageJson = "nodeps"
       THEN /\ startup' = "crashed"
            /\ framework' = framework
       ELSE /\ startup' = "dispatched"
            /\ framework' = IF startup = "parsed" /\ packageJson = "next"
                            THEN "next" ELSE "unknown"
    /\ UNCHANGED <<cwd, pkg, dir, packageJson, reads>>
    /\ UNCHANGED buildVars

NextStartup ==
    \/ parsePackageJson
    \/ detectFramework

SpecStartup == InitStartup /\ [][NextStartup]_vars

\* ------------------------------------------------- reading the output files

\* The least index from `from` on whose token is in T; Len(s) + 1 when none.
NextIndex(s, from, T) ==
    IF \E j \in from..Len(s) : s[j] \in T
    THEN CHOOSE j \in from..Len(s) : s[j] \in T /\ \A k \in from..(j - 1) : s[k] \notin T
    ELSE Len(s) + 1

RECURSIVE Split(_, _)
\* The lines of a text.
Split(s, sep) ==
    LET j == NextIndex(s, 1, {sep})
    IN IF j > Len(s) THEN <<s>>
       ELSE <<SubSeq(s, 1, j - 1)>> \o Split(SubSeq(s, j + 1, Len(s)), sep)

\* The lines between the <defs> line and the </defs> line.
DefsChildren(doc) ==
    LET lines == Split(doc, NL)
        open == CHOOSE i \in 1..Len(lines) : lines[i] = <<"<defs>">>
        close == CHOOSE i \in 1..Len(lines) : lines[i] = <<"</defs>">>
    IN SubSeq(lines, open + 1, close - 1)

\* The places where a <symbol ...> start tag begins, and the tag's attribute text.
SymbolStarts(doc) == {i \in 1..(Len(doc) - 1) : doc[i] = "<" /\ doc[i + 1] = "symbol"}
StartTag(doc, i) == SubSeq(doc, i + 2, NextIndex(doc, i, {">"}) - 1)

AttrNames(tag) == {tag[k + 1] : k \in {k \in 1..(Len(tag) - 1) : tag[k] = SP}}

\* The value of the id attribute of a start tag, quoted or not; <<>> without one.
IdOf(tag) ==
    LET at == {k \in 2..(Len(tag) - 1) : tag[k - 1] = SP /\ tag[k] = "id" /\ tag[k + 1] = "="}
    IN IF at = {} THEN <<>>
       ELSE LET k == CHOOSE x \in at : \A y \in at : x <= y
            IN IF k + 2 <= Len(tag) /\ tag[k + 2] = QUOTE
               THEN SubSeq(tag, k + 3, NextIndex(tag, k + 3, {QUOTE}) - 1)
               ELSE SubSeq(tag, k + 2, NextIndex(tag, k + 2, {SP}) - 1)

RECURSIVE QuotedLiterals(_)
\* The double-quoted literals of a text, in order.
QuotedLiterals(s) ==
    LET i == NextIndex(s, 1, {QUOTE})
        j == NextIndex(s, i + 1, {QUOTE})
    IN IF j > Len(s) THEN <<>>
       ELSE <<SubSeq(s, i + 1, j - 1)>> \o QuotedLiterals(SubSeq(s, j + 1, Len(s)))

\* ------------------------------------------------------------ the invocation

Ended == nBuilds > 0 /\ pc \in {"done", "exit"}
ReturnedOk == nBuilds > 0 /\ pc = "done"
RanPipeline == ReturnedOk /\ outcome = "generated"
Written == {calls[k].path : k \in {k \in 1..Len(calls) : calls[k].ret}}
Name(i) == iconName(files[i])
Malformed(i) == ~pre.input[files[i]].svg

\* The condition of the short-circuit, stated on the files the invocation found.
StartedCurrent ==
    \A i \in 1..Len(files) :
        /\ Includes(ReadOrEmpty(pre.fs, SpritePath), <<"id", "=">> \o Name(i))
        /\ Includes(ReadOrEmpty(pre.fs, TypesPath), <<QUOTE>> \o Name(i) \o <<QUOTE>>)

\* ------------------------------------------------------------------- claims

\* C1: a build that follows a build that did not fail, with the input
\* directory and the output files as that build left them, and that does not
\* fail itself, writes none of sprite.svg, name.d.ts and README.md, whether
\* it returns at the up-to-date check or runs the pipeline to writeIfChanged.
C1_SecondRunWritesNothing ==
    (/\ ReturnedOk
     /\ prev.outcome \in {"uptodate", "generated"}
     /\ pre.input = prev.input)
    => /\ Written = {}
       /\ fs = pre.fs

C1_Witness ==
    /\ RanPipeline
    /\ prev.outcome = "generated"
    /\ pre.input = prev.input
    /\ Len(calls) = 3
    /\ Len(files) = 2

\* C2 (as claimed): whatever the output files hold, a build over a file list
\* with a file that has no <svg> element ends with the malformed-input error
\* and leaves the output files as they were.
C2_Original ==
    (Ended /\ \E i \in 1..Len(files) : Malformed(i))
    => /\ outcome = "malformed"
       /\ fs = pre.fs

\* C2 (amended): unless the output files already pass the up-to-date check, a
\* build over a file list with a file that has no <svg> element ends with the
\* malformed-input error and leaves the output files as they were; and in
\* every build the optimizer runs and writeIfChanged is called only after
\* every file was normalized, whatever the completion order of the reads.
C2_MalformedAborts ==
    /\ (Ended /\ ~StartedCurrent /\ \E i \in 1..Len(files) : Malformed(i))
       => /\ pc = "exit"
          /\ outcome = "malformed"
          /\ fs = pre.fs
          /\ calls = <<>>
          /\ ~optimized
          /\ assembled = <<>>
    /\ (nBuilds > 0 /\ (optimized \/ calls # <<>> \/ assembled # <<>> \/ fs # pre.fs))
       => \A i \in 1..Len(files) : ~Malformed(i) /\ i \in Range(arrival)

C2_Witness ==
    /\ pc = "exit"
    /\ outcome = "malformed"
    /\ Len(arrival) = 2
    /\ ~Malformed(arrival[1])
    /\ \E p \in Paths : fs[p].exists

\* C3: a build that finds no .svg file under the input directory exits
\* non-zero with the no-input error and writes no output file, also when
\* output files of an earlier build exist.
C3_EmptyInputWritesNothing ==
    (Ended /\ {p \in AllPaths : pre.input[p].present /\ p[Len(p)] = ".svg"} = {})
    => /\ pc = "exit"
       /\ outcome = "noinput"
       /\ fs = pre.fs
       /\ calls = <<>>
       /\ arrival = <<>>
       /\ ~optimized

C3_Witness ==
    /\ Ended
    /\ Glob(pre.input) = {}
    /\ prev.outcome = "generated"
    /\ fs[SpritePath].exists

\* C4: a build with at least one input file that finds id=<name> in the
\* sprite and "<name>" in the manifest for every icon name returns as up to
\* date, having completed no read task, run no optimizer and written nothing.
C4_ShortCircuit ==
    (nBuilds > 0 /\ files # <<>> /\ StartedCurrent)
    => /\ pc = "done"
       /\ outcome = "uptodate"
       /\ arrival = <<>>
       /\ assembled = <<>>
       /\ ~optimized
       /\ calls = <<>>
       /\ fs = pre.fs

C4_Witness ==
    /\ nBuilds > 0
    /\ files # <<>>
    /\ StartedCurrent
    /\ \E i \in 1..Len(files) : Malformed(i)

\* C5 (as claimed): after a build that generated the outputs over an icon
\* set, a build over that set less one icon (and not empty) returns as up to
\* date and writes nothing, so the removed icon stays in sprite and manifest.
C5_RemovedIconNotDetected ==
    (/\ Ended
     /\ prev.outcome = "generated"
     /\ Glob(pre.input) # {}
     /\ Glob(pre.input) \subseteq Glob(prev.input)
     /\ Cardinality(Glob(prev.input) \ Glob(pre.input)) = 1
     /\ \A p \in Glob(pre.input) : pre.input[p] = prev.input[p])
    => /\ outcome = "uptodate"
       /\ fs = pre.fs

\* The symbols of the sprite file are one per file of the list, with the
\* file's icon name as id and none of the five stripped attributes.
SpriteMatchesFiles ==
    /\ fs[SpritePath].exists
    /\ LET doc == fs[SpritePath].data
       IN /\ Cardinality(SymbolStarts(doc)) = Len(files)
          /\ \A i \in 1..Len(files) :
                Cardinality({k \in SymbolStarts(doc) : IdOf(StartTag(doc, k)) = Name(i)}) = 1
          /\ \A k \in SymbolStarts(doc) :
                AttrNames(StartTag(doc, k)) \cap StrippedAttrs = {}

\* C6 (as claimed): after a build that returns without error, sprite.svg
\* holds exactly one symbol per file of the list, with the stated id and
\* attributes.
C6_Original == ReturnedOk => SpriteMatchesFiles

\* C6 (amended): after a build that runs the pipeline (it does not return at
\* the up-to-date check) with the optimizer off and returns without error,
\* sprite.svg holds exactly one symbol per file of the list, with the file's
\* icon name as id and none of xmlns, xmlns:xlink, version, width, height.
C6_SpriteMatchesInput == (RanPipeline /\ ~cfg.optimize) => SpriteMatchesFiles

C6_Witness ==
    /\ RanPipeline
    /\ ~cfg.optimize
    /\ Len(files) = 2
    /\ pre.fs[SpritePath] = File(EarlierSprite)

\* The manifest lists the icon names of the .svg files found, in sorted order.
ManifestMatchesFiles ==
    /\ fs[TypesPath].exists
    /\ QuotedLiterals(fs[TypesPath].data) = [i \in 1..Len(files) |-> Name(i)]
    /\ Range(files) = {p \in AllPaths : pre.input[p].present /\ p[Len(p)] = ".svg"}
    /\ \A i, j \in 1..Len(files) : i < j => localeCompare(files[i], files[j]) < 0

\* C7 (as claimed): after a build that returns without error, name.d.ts
\* lists exactly the icon names of the file list, in sorted order.
C7_Original == ReturnedOk => ManifestMatchesFiles

\* C7 (amended): after a build that runs the pipeline (it does not return at
\* the up-to-date check) and returns without error, name.d.ts lists exactly
\* the icon names of the file list, one per file, in the sorted order.
C7_ManifestMatchesInput == RanPipeline => ManifestMatchesFiles

C7_Witness ==
    /\ RanPipeline
    /\ Len(files) = 2
    /\ pre.fs[TypesPath].exists

C9_WriteIfChanged ==
    /\ \A k \in 1..Len(calls) :
         LET c == calls[k]
             before == ReadOrEmpty(pre.fs, c.path)
         IN /\ ~c.threw => (c.ret <=> before # c.content)
            /\ c.ret => fs[c.path] = File(c.content)
            /\ ~c.ret => fs[c.path] = pre.fs[c.path]
    /\ nBuilds > 0 => \A p \in Paths \ Written : fs[p] = pre.fs[p]

C9_Witness ==
    /\ Len(calls) = 3
    /\ calls[1].ret
    /\ ~calls[2].ret
    /\ calls[3].ret
    /\ pre.fs[ReadmePath].exists
    /\ ~pre.fs[SpritePath].exists

\* C10: in every completion order of the read tasks, the i-th child of
\* <defs> in the assembled sprite is the symbol of the i-th file of the
\* sorted list, and a completed task's value is at the task's own index.
C10_OrderPreserved ==
    /\ pc = "reading" =>
         \A i \in Range(arrival) : results[i] = Normalize(files[i], pre.input[files[i]])
    /\ assembled # <<>> =>
         DefsChildren(assembled)
           = [i \in 1..Len(files) |-> Normalize(files[i], pre.input[files[i]])]

C10_Witness ==
    /\ assembled # <<>>
    /\ arrival = <<2, 1>>

\* C11 (as claimed): every write the build attempts (a writeIfChanged call
\* whose content differs from the file) goes into a directory that exists by
\* then, also when a separate sprite directory is configured.
C11_DirectoriesExistBeforeWrites ==
    \A k \in 1..Len(calls) :
        (ReadOrEmpty(pre.fs, calls[k].path) # calls[k].content)
        => calls[k].path[1] \in dirs

\* The icons the sprite file and the manifest file name (none when missing).
SpriteNamed ==
    LET doc == ReadOrEmpty(fs, SpritePath)
    IN {IdOf(StartTag(doc, k)) : k \in SymbolStarts(doc)}
ManifestNamed == Range(QuotedLiterals(ReadOrEmpty(fs, TypesPath)))

\* C12 (as claimed): starting from no output files, every invocation that
\* returns without error leaves sprite.svg and name.d.ts naming the same
\* set of icons.
C12_Original == ReturnedOk => SpriteNamed = ManifestNamed

\* C12 (amended): starting from no output files, every invocation that runs
\* the pipeline (it does not return at the up-to-date check) with the
\* optimizer off and returns without error leaves sprite.svg and name.d.ts
\* naming the same set of icons, the icon names of its file list, whatever
\* earlier invocations completed, returned as up to date or failed part-way.
C12_SpriteAndManifestAgree ==
    (RanPipeline /\ ~cfg.optimize)
    => /\ SpriteNamed = ManifestNamed
       /\ ManifestNamed = {Name(i) : i \in 1..Len(files)}

C12_Witness ==
    /\ RanPipeline
    /\ ~cfg.optimize
    /\ prev.outcome = "writefail"
    /\ pre.fs[SpritePath].exists
    /\ ~pre.fs[TypesPath].exists
    /\ Len(files) = 2
\* C13 (as claimed): parsePackageJson walks upward one parent per failed
\* read and never retries a directory: it reads the package.json of each
\* directory between the working directory and the root at most once, so
\* the reads made so far are at most the directories left behind plus the
\* one it is at.
C13_LookupNeverRetries == reads <= Len(cwd) - Len(dir) + 1
====
